---------------------------- MODULE Spec2Model ----------------------------
(***************************************************************************)
(* A model of the DDSketch crate: the logarithmic index mapping            *)
(* (src/src/mapping.rs), the Dense and Collapsing stores                   *)
(* (src/src/store.rs) and the sketch itself (src/src/ddsketch.rs).         *)
(*                                                                         *)
(* Numbers.  The mapping computes with ln and exp.  A real number is kept  *)
(* here by its sign and the natural logarithm of its magnitude, a rational *)
(* num/den: [sgn, num, den] stands for sgn * exp(num/den), and zero is     *)
(* [0, 0, 1].  ln and exp are then exact, and floor, the cast to i32 and   *)
(* every comparison are computed on the rationals.  NaN and the infinities *)
(* are not values of the model.  A relative accuracy a is kept by          *)
(* ln(1 + a), a rational, so that multiplier = 1 / ln(1 + a) is exact.     *)
(* Counts are u64 in the code; the model keeps them far below 2^64.        *)
(***************************************************************************)
EXTENDS Integers, Sequences, FiniteSets

VARIABLES sketches, inserted, last, panicked, probe, observations

vars == <<sketches, inserted, last, panicked, probe, observations>>

---------------------------------------------------------------------------
(* Bounds of the model.                                                    *)

\* Most observations one sketch receives through add / add_with_count.
MaxCount == 3
\* Largest count one add_with_count call passes.
MaxAddCount == 2
\* Most observations a sketch holds after a merge.
MaxMerged == 4
\* Largest max_num_bins a bounded sketch is built with.
MaxBins == 2

---------------------------------------------------------------------------
(* Integers of the code.                                                   *)

I32_MAX == 2147483647
I32_MIN == -I32_MAX - 1

Abs(x) == IF x < 0 THEN -x ELSE x

RECURSIVE GCD(_, _)
GCD(a, b) == IF b = 0 THEN Abs(a) ELSE GCD(b, a % b)

---------------------------------------------------------------------------
(* Real numbers: sgn * exp(num / den).                                     *)

Zero == [sgn |-> 0, num |-> 0, den |-> 1]

\* exp(n / d), d > 0, in lowest terms.
Exp(n, d) ==
    LET g == GCD(n, d)
    IN  [sgn |-> 1, num |-> n \div g, den |-> d \div g]

Neg(r) == [r EXCEPT !.sgn = -r.sgn]

\* n1/d1 <= n2/d2 for d1, d2 > 0, without a product beyond 32 bits: the
\* whole parts decide, and the fractions only when those are equal.
RatLeq(n1, d1, n2, d2) ==
    IF d1 = d2 THEN n1 <= n2
    ELSE LET w1 == n1 \div d1
             w2 == n2 \div d2
         IN  IF w1 # w2 THEN w1 < w2
             ELSE (n1 % d1) * d2 <= (n2 % d2) * d1

\* a <= b on reals.
RealLeq(a, b) ==
    IF a.sgn # b.sgn THEN a.sgn < b.sgn
    ELSE IF a.sgn = 0 THEN TRUE
    ELSE IF a.sgn = 1 THEN RatLeq(a.num, a.den, b.num, b.den)
    ELSE RatLeq(b.num, b.den, a.num, a.den)

\* f64::min and f64::max on numbers that are not NaN.
F64Min(a, b) == IF RealLeq(a, b) THEN a ELSE b
F64Max(a, b) == IF RealLeq(a, b) THEN b ELSE a

\* (ln(v) * m).floor() as i32 for v = exp(n / d) and an integer m >= 1:
\* floor(n * m / d), saturated to the i32 range as Rust's float-to-int
\* cast does.  n = q * d + r gives floor(n * m / d) = q * m + f with
\* f = floor(r * m / d) in 0 .. m - 1.
FloorFrac(r, d, m) == r * (m \div d) + ((r * (m % d)) \div d)

AboveI32(q, f, m) ==
    \/ q > I32_MAX \div m
    \/ q = I32_MAX \div m /\ f > I32_MAX % m

FloorAsI32(n, d, m) ==
    LET q == n \div d
        f == FloorFrac(n % d, d, m)
    IN  IF q >= 0
        THEN IF AboveI32(q, f, m) THEN I32_MAX ELSE q * m + f
        ELSE \* q * m + f < I32_MIN  iff  (-q - 1) * m + (m - f - 1) > I32_MAX
             IF AboveI32(-q - 1, m - f - 1, m) THEN I32_MIN ELSE q * m + f

---------------------------------------------------------------------------
(* LogarithmicMapping (src/src/mapping.rs).                                *)

Ok(v) == [ok |-> TRUE, val |-> v]
Err(e) == [ok |-> FALSE, err |-> e]

\* The accuracy a with ln(1 + a) = n / d.
Accuracy(n, d) == [ln1p_num |-> n, ln1p_den |-> d]

\* 0 < a < 1, that is 0 < ln(1 + a) < ln 2 = 0.6931...
ValidAccuracy(a) ==
    /\ a.ln1p_num > 0
    /\ \/ a.ln1p_den \div a.ln1p_num >= 2
       \/ a.ln1p_num * 10000 < 6931 * a.ln1p_den

\* multiplier = 1 / ln(1 + a); the accuracies of the model make it a whole
\* number.  offset is 0.
LogarithmicMapping_new(relative_accuracy) ==
    IF ~ValidAccuracy(relative_accuracy)
    THEN Err("InvalidRelativeAccuracy")
    ELSE Ok([relative_accuracy |-> relative_accuracy,
             multiplier |-> relative_accuracy.ln1p_den \div relative_accuracy.ln1p_num,
             offset |-> 0])

key(mapping, v) ==
    IF v.sgn <= 0
    THEN I32_MIN
    ELSE FloorAsI32(v.num, v.den, mapping.multiplier)

value(mapping, index) ==
    IF index = I32_MIN
    THEN Zero
    ELSE Exp(index - mapping.offset, mapping.multiplier)

---------------------------------------------------------------------------
(* Stores (src/src/store.rs).  bins is the HashMap<i32, u64>: a function   *)
(* whose domain is the set of indices present.                             *)

EmptyBins == [i \in {} |-> 0]

\* *bins.entry(index).or_insert(0) += count
BinsAdd(bins, index, count) ==
    [i \in DOMAIN bins \cup {index} |->
        IF i = index
        THEN (IF index \in DOMAIN bins THEN bins[index] ELSE 0) + count
        ELSE bins[i]]

\* bins.remove(&index)
BinsRemove(bins, index) == [i \in DOMAIN bins \ {index} |-> bins[i]]

\* bins.insert(index, count)
BinsInsert(bins, index, count) ==
    [i \in DOMAIN bins \cup {index} |-> IF i = index THEN count ELSE bins[i]]

\* self.bins.get(&index).copied().unwrap_or(0)
BinsGet(bins, index) == IF index \in DOMAIN bins THEN bins[index] ELSE 0

\* An order of the negative indices left ascending.
Reverse_unreversed(s) == s

\* The elements of a finite set of integers in ascending order.
RECURSIVE SortedAsc(_)
SortedAsc(S) ==
    IF S = {} THEN <<>>
    ELSE LET m == CHOOSE x \in S : \A y \in S : x <= y
         IN  <<m>> \o SortedAsc(S \ {m})

Reverse(s) == [i \in 1..Len(s) |-> s[Len(s) + 1 - i]]

RemoveAt(s, k) == [i \in 1..(Len(s) - 1) |-> IF i < k THEN s[i] ELSE s[i + 1]]

DenseStore_new == [bins |-> EmptyBins, total_count |-> 0]

\* DenseStore::add that counts only the first addition to a bin.
DenseStore_add_stale_total(self, index, count) ==
    IF count = 0
    THEN self
    ELSE [bins |-> BinsAdd(self.bins, index, count),
          total_count |-> IF index \in DOMAIN self.bins
                          THEN self.total_count
                          ELSE self.total_count + count]

DenseStore_add(self, index, count) ==
    IF count = 0
    THEN self
    ELSE [bins |-> BinsAdd(self.bins, index, count),
          total_count |-> self.total_count + count]

\* for (index, count) in other.iter() { self.add(index, count) }, other's
\* pairs given as a function; the pairs are taken in ascending index order
\* (the HashMap's order is unspecified, and additions commute).
RECURSIVE DenseStore_merge_from(_, _, _)
DenseStore_merge_from(self, pairs, todo) ==
    IF Len(todo) = 0
    THEN self
    ELSE DenseStore_merge_from(DenseStore_add(self, todo[1], pairs[todo[1]]),
                               pairs, Tail(todo))

DenseStore_merge(self, pairs) ==
    DenseStore_merge_from(self, pairs, SortedAsc(DOMAIN pairs))

DenseStore_clear(self) == [bins |-> EmptyBins, total_count |-> 0]

CollapsingStore_new(max_num_bins) ==
    [store |-> DenseStore_new, max_num_bins |-> max_num_bins]

\* A scan that takes the last pair of the smallest combined count.
RECURSIVE FindMergeIndex_last_tie(_, _, _, _, _)
FindMergeIndex_last_tie(bins, sorted_indices, i, best, merge_index) ==
    IF i >= Len(sorted_indices) - 1
    THEN merge_index
    ELSE LET combined == BinsGet(bins, sorted_indices[i + 1])
                         + BinsGet(bins, sorted_indices[i + 2])
         IN  IF best = -1 \/ combined <= best
             THEN FindMergeIndex_last_tie(bins, sorted_indices, i + 1, combined, i)
             ELSE FindMergeIndex_last_tie(bins, sorted_indices, i + 1, best, merge_index)

\* The scan of lines 144-156 from position i (0-based) on: the first
\* position whose pair has the smallest combined count.  best = -1 stands
\* for min_combined_count = u64::MAX, below which every combined count of
\* the model lies.
RECURSIVE FindMergeIndex(_, _, _, _, _)
FindMergeIndex(bins, sorted_indices, i, best, merge_index) ==
    IF i >= Len(sorted_indices) - 1
    THEN merge_index
    ELSE LET combined == BinsGet(bins, sorted_indices[i + 1])
                         + BinsGet(bins, sorted_indices[i + 2])
         IN  IF best = -1 \/ combined < best
             THEN FindMergeIndex(bins, sorted_indices, i + 1, combined, i)
             ELSE FindMergeIndex(bins, sorted_indices, i + 1, best, merge_index)

\* A turn of the loop that leaves the second bin's count out of the fused bin.
CollapseStep_drops_count(bins, sorted_indices) ==
    LET merge_index == FindMergeIndex(bins, sorted_indices, 0, -1, 0)
    IN  IF merge_index + 1 >= Len(sorted_indices)
        THEN [bins |-> bins, sorted_indices |-> sorted_indices, panic |-> TRUE]
        ELSE LET index1 == sorted_indices[merge_index + 1]
                 index2 == sorted_indices[merge_index + 2]
             IN  [bins |-> BinsRemove(bins, index2),
                  sorted_indices |-> RemoveAt(sorted_indices, merge_index + 2),
                  panic |-> FALSE]

\* One turn of the while loop of lines 142-173 on a list longer than
\* max_num_bins.  sorted_indices[merge_index + 1] is out of bounds when one
\* index is left: the turn panics with the bins as they are.
CollapseStep(bins, sorted_indices) ==
    LET merge_index == FindMergeIndex(bins, sorted_indices, 0, -1, 0)
    IN  IF merge_index + 1 >= Len(sorted_indices)
        THEN [bins |-> bins, sorted_indices |-> sorted_indices, panic |-> TRUE]
        ELSE LET index1 == sorted_indices[merge_index + 1]
                 index2 == sorted_indices[merge_index + 2]
                 count1 == BinsGet(bins, index1)
                 count2 == BinsGet(bins, index2)
             IN  [bins |-> BinsInsert(BinsRemove(BinsRemove(bins, index1), index2),
                                      index1, count1 + count2),
                  sorted_indices |-> RemoveAt(sorted_indices, merge_index + 2),
                  panic |-> FALSE]

RECURSIVE CollapseLoop(_, _, _)
CollapseLoop(bins, sorted_indices, max_num_bins) ==
    IF Len(sorted_indices) <= max_num_bins
    THEN [bins |-> bins, panic |-> FALSE]
    ELSE LET step == CollapseStep(bins, sorted_indices)
         IN  IF step.panic
             THEN [bins |-> bins, panic |-> TRUE]
             ELSE CollapseLoop(step.bins, step.sorted_indices, max_num_bins)

\* collapse_if_needed that tolerates one bin more than max_num_bins.
collapse_if_needed_one_over(self) ==
    IF Cardinality(DOMAIN self.store.bins) <= self.max_num_bins + 1
    THEN [store |-> self, panic |-> FALSE]
    ELSE LET r == CollapseLoop(self.store.bins,
                               SortedAsc(DOMAIN self.store.bins),
                               self.max_num_bins)
         IN  [store |-> [self EXCEPT !.store.bins = r.bins], panic |-> r.panic]

\* collapse_if_needed: the store afterwards, and whether it panicked.
collapse_if_needed(self) ==
    IF Cardinality(DOMAIN self.store.bins) <= self.max_num_bins
    THEN [store |-> self, panic |-> FALSE]
    ELSE LET r == CollapseLoop(self.store.bins,
                               SortedAsc(DOMAIN self.store.bins),
                               self.max_num_bins)
         IN  [store |-> [self EXCEPT !.store.bins = r.bins], panic |-> r.panic]

CollapsingStore_add(self, index, count) ==
    collapse_if_needed([self EXCEPT !.store = DenseStore_add(self.store, index, count)])

\* CollapsingStore::merge without the collapse.
CollapsingStore_merge_no_collapse(self, pairs) ==
    [store |-> [self EXCEPT !.store = DenseStore_merge(self.store, pairs)],
     panic |-> FALSE]

CollapsingStore_merge(self, pairs) ==
    collapse_if_needed([self EXCEPT !.store = DenseStore_merge(self.store, pairs)])

CollapsingStore_clear(self) == [self EXCEPT !.store = DenseStore_clear(self.store)]

\* The trait object Box<dyn Store>: a DenseStore, or a CollapsingStore, which
\* has the field max_num_bins.  Each mutation gives the store afterwards and
\* whether the call panicked.
IsCollapsing(s) == "max_num_bins" \in DOMAIN s

Dense(s) == IF IsCollapsing(s) THEN s.store ELSE s

Store_add(s, index, count) ==
    IF IsCollapsing(s)
    THEN CollapsingStore_add(s, index, count)
    ELSE [store |-> DenseStore_add(s, index, count), panic |-> FALSE]

Store_get(s, index) == BinsGet(Dense(s).bins, index)

Store_total_count(s) == Dense(s).total_count

Store_is_empty(s) == Dense(s).total_count = 0

\* iter(): the (index, count) pairs present, as a function.
Store_iter(s) == Dense(s).bins

Store_merge(s, other) ==
    IF IsCollapsing(s)
    THEN CollapsingStore_merge(s, Store_iter(other))
    ELSE [store |-> DenseStore_merge(s, Store_iter(other)), panic |-> FALSE]

Store_clear(s) ==
    IF IsCollapsing(s) THEN CollapsingStore_clear(s) ELSE DenseStore_clear(s)

---------------------------------------------------------------------------
(* DDSketch (src/src/ddsketch.rs).                                         *)

None == [some |-> FALSE]
Some(v) == [some |-> TRUE, val |-> v]

DDSketch_new(relative_accuracy) ==
    LET mapping == LogarithmicMapping_new(relative_accuracy)
    IN  IF ~mapping.ok
        THEN mapping
        ELSE Ok([mapping |-> mapping.val,
                 store |-> DenseStore_new,
                 zero_count |-> 0,
                 negative_store |-> DenseStore_new,
                 min_value |-> None,
                 max_value |-> None])

DDSketch_with_max_bins(relative_accuracy, max_num_bins) ==
    LET mapping == LogarithmicMapping_new(relative_accuracy)
    IN  IF ~mapping.ok
        THEN mapping
        ELSE Ok([mapping |-> mapping.val,
                 store |-> CollapsingStore_new(max_num_bins),
                 zero_count |-> 0,
                 negative_store |-> CollapsingStore_new(max_num_bins),
                 min_value |-> None,
                 max_value |-> None])

\* A fold that overwrites the minimum, and one that keeps the first maximum.
FoldMin_overwrite(opt, v) == v
FoldMax_keep_first(opt, v) == IF opt.some THEN opt.val ELSE v

\* self.min_value.map_or(v, |min| min.min(v)), and the same for max.
FoldMin(opt, v) == IF opt.some THEN F64Min(opt.val, v) ELSE v
FoldMax(opt, v) == IF opt.some THEN F64Max(opt.val, v) ELSE v

\* add_with_count: the sketch afterwards and whether the call panicked
\* (inside the store's add, after min and max were updated).
add_with_count(self, v, count) ==
    IF count = 0
    THEN [sketch |-> self, panic |-> FALSE]
    ELSE LET s1 == [self EXCEPT !.min_value = Some(FoldMin(self.min_value, v)),
                                !.max_value = Some(FoldMax(self.max_value, v))]
         IN  IF v.sgn = 0
             THEN [sketch |-> [s1 EXCEPT !.zero_count = @ + count], panic |-> FALSE]
             ELSE IF v.sgn = 1
             THEN LET r == Store_add(s1.store, key(s1.mapping, v), count)
                  IN  [sketch |-> [s1 EXCEPT !.store = r.store], panic |-> r.panic]
             ELSE LET r == Store_add(s1.negative_store, key(s1.mapping, Neg(v)), count)
                  IN  [sketch |-> [s1 EXCEPT !.negative_store = r.store],
                       panic |-> r.panic]

add(self, v) == add_with_count(self, v, 1)

count(self) ==
    Store_total_count(self.store) + self.zero_count
        + Store_total_count(self.negative_store)

is_empty(self) == count(self) = 0

\* A quantile is the rational num / den, den > 0.
Quantile(n, d) == [num |-> n, den |-> d]

\* (quantile * total_count as f64) as u64 for 0 <= quantile <= 1.
Rank(quantile, total_count) == (quantile.num * total_count) \div quantile.den

\* The walk of one store's indices in the given order, from current_rank:
\* the first index whose cumulative count exceeds rank, or the rank reached.
RECURSIVE WalkStore(_, _, _, _)
WalkStore(s, indices, current_rank, rank) ==
    IF Len(indices) = 0
    THEN [found |-> FALSE, current_rank |-> current_rank]
    ELSE LET c == Store_get(s, indices[1])
         IN  IF current_rank + c > rank
             THEN [found |-> TRUE, index |-> indices[1]]
             ELSE WalkStore(s, Tail(indices), current_rank + c, rank)

\* Lines 154-195: the walk, once the quantile and the sketch are accepted.
\* via names the branch that answered.
QuantileWalk(self, quantile) ==
    LET rank == Rank(quantile, count(self))
        neg == IF ~Store_is_empty(self.negative_store)
               THEN WalkStore(self.negative_store,
                              Reverse(SortedAsc(DOMAIN Store_iter(self.negative_store))),
                              0, rank)
               ELSE [found |-> FALSE, current_rank |-> 0]
    IN  IF neg.found
        THEN [res |-> Ok(Neg(value(self.mapping, neg.index))), via |-> "negative"]
        ELSE IF neg.current_rank + self.zero_count > rank
        THEN [res |-> Ok(Zero), via |-> "zero"]
        ELSE LET pos == IF ~Store_is_empty(self.store)
                        THEN WalkStore(self.store,
                                       SortedAsc(DOMAIN Store_iter(self.store)),
                                       neg.current_rank + self.zero_count, rank)
                        ELSE [found |-> FALSE, current_rank |-> 0]
             IN  IF pos.found
                 THEN [res |-> Ok(value(self.mapping, pos.index)), via |-> "positive"]
                 ELSE [res |-> IF self.max_value.some
                               THEN Ok(self.max_value.val)
                               ELSE Err("EmptySketch"),
                       via |-> "fallback"]

\* get_quantile_value that rejects the quantile 1.
get_quantile_value_excl_one(self, quantile) ==
    IF quantile.num < 0 \/ quantile.num >= quantile.den
    THEN Err("InvalidQuantile")
    ELSE IF is_empty(self)
    THEN Err("EmptySketch")
    ELSE QuantileWalk(self, quantile).res

get_quantile_value(self, quantile) ==
    IF quantile.num < 0 \/ quantile.num > quantile.den
    THEN Err("InvalidQuantile")
    ELSE IF is_empty(self)
    THEN Err("EmptySketch")
    ELSE QuantileWalk(self, quantile).res

\* quantiles.iter().map(|&q| self.get_quantile_value(q)).collect(): the
\* values in order, or the first failure.
RECURSIVE get_quantile_values_from(_, _, _)
get_quantile_values_from(self, quantiles, acc) ==
    IF Len(quantiles) = 0
    THEN Ok(acc)
    ELSE LET r == get_quantile_value(self, quantiles[1])
         IN  IF ~r.ok THEN r
             ELSE get_quantile_values_from(self, Tail(quantiles), Append(acc, r.val))

get_quantile_values(self, quantiles) == get_quantile_values_from(self, quantiles, <<>>)

\* (self.relative_accuracy - other.relative_accuracy).abs() > 1e-10, decided
\* on x = ln(1 + a): the accuracies differ by at least |x1 - x2|, which is
\* |n1 * d2 - n2 * d1| / (d1 * d2), and 1e-10 is 1 / (TolRoot * TolRoot).
TolRoot == 100000

AccuracyDiffers(a, b) ==
    LET diff == Abs(a.ln1p_num * b.ln1p_den - b.ln1p_num * a.ln1p_den)
    IN  /\ diff # 0
        /\ ((a.ln1p_den * b.ln1p_den) \div diff) \div TolRoot < TolRoot

\* What a call that panicked returns: nothing.
NoReturn == [ok |-> FALSE, err |-> "panicked"]

\* Lines 224-238 of merge, the sketches being compatible: the sketch
\* afterwards, the result, and whether the call panicked (inside a store's
\* merge, the later statements not executed).
merge_stores(self, other) ==
    LET p == Store_merge(self.store, other.store)
        s1 == [self EXCEPT !.store = p.store]
    IN  IF p.panic
        THEN [sketch |-> s1, res |-> NoReturn, panic |-> TRUE]
        ELSE LET n == Store_merge(s1.negative_store, other.negative_store)
                 s2 == [s1 EXCEPT !.negative_store = n.store]
             IN  IF n.panic
                 THEN [sketch |-> s2, res |-> NoReturn, panic |-> TRUE]
                 ELSE [sketch |->
                          [s2 EXCEPT
                             !.zero_count = @ + other.zero_count,
                             !.min_value =
                                 IF other.min_value.some
                                 THEN Some(FoldMin(@, other.min_value.val))
                                 ELSE @,
                             !.max_value =
                                 IF other.max_value.some
                                 THEN Some(FoldMax(@, other.max_value.val))
                                 ELSE @],
                       res |-> Ok("unit"),
                       panic |-> FALSE]

\* merge that checks the accuracies after it has merged.
merge_check_late(self, other) ==
    IF AccuracyDiffers(self.mapping.relative_accuracy, other.mapping.relative_accuracy)
    THEN [sketch |-> merge_stores(self, other).sketch,
          res |-> Err("IncompatibleSketches"), panic |-> FALSE]
    ELSE merge_stores(self, other)

\* merge: the sketch afterwards, the result, and whether the call panicked.
merge(self, other) ==
    IF AccuracyDiffers(self.mapping.relative_accuracy, other.mapping.relative_accuracy)
    THEN [sketch |-> self, res |-> Err("IncompatibleSketches"), panic |-> FALSE]
    ELSE merge_stores(self, other)

clear(self) ==
    [self EXCEPT !.store = Store_clear(self.store),
                 !.negative_store = Store_clear(self.negative_store),
                 !.zero_count = 0,
                 !.min_value = None,
                 !.max_value = None]

\* impl Clone: a sketch made by DDSketch::new with the accuracy of self, the
\* buckets of self added to its stores one by one, zero_count, min_value and
\* max_value copied.
clone(self) ==
    LET cloned == DDSketch_new(self.mapping.relative_accuracy).val
    IN  [cloned EXCEPT
           !.store = DenseStore_merge(@, Store_iter(self.store)),
           !.negative_store = DenseStore_merge(@, Store_iter(self.negative_store)),
           !.zero_count = self.zero_count,
           !.min_value = self.min_value,
           !.max_value = self.max_value]

-------------------------------------------------------------------------------------------------------------------------------------------
(* The state machine: two sketches a caller owns and the calls it makes.   *)
(* sketches[i] is sketch i; inserted[i] is the sum of the counts passed to *)
(* it, a merge passing on those of the merged sketch (a history variable); *)
(* last is the result of the call just made, for the calls that return     *)
(* one; panicked is TRUE once a call has panicked, which ends the program. *)
(* observations[i] is the bag of the values sketch i was given, kept by    *)
(* the calls of SpecObserved only (a history variable).                    *)

SketchIds == {1, 2}

\* ln(1 + a) = 1/2 and 1/3: a = 0.6487... and a = 0.3956...
Acc1 == Accuracy(1, 2)
Acc2 == Accuracy(1, 3)

\* The values a caller adds: 0, and +-exp(n/4).
PositiveValues == {Exp(1, 4), Exp(2, 4), Exp(4, 4)}
NegativeValues == {Neg(Exp(1, 4)), Neg(Exp(4, 4))}
Values == PositiveValues \cup NegativeValues \cup {Zero}

\* The quantiles a caller asks for: -1/4, 0, 1/4, ..., 1, 5/4.
Quantiles == {Quantile(n, 4) : n \in -1..5}
QuantileLists == {<<Quantile(1, 4), Quantile(3, 4)>>,
                  <<Quantile(2, 4), Quantile(5, 4), Quantile(0, 4)>>}

\* The pairs of sketches the constructors give: both unbounded, both
\* bounded alike, a bounded one beside an unbounded one, and two of
\* different accuracies.
Unbounded(a) == DDSketch_new(a).val
Bounded(a, m) == DDSketch_with_max_bins(a, m).val

Constructions ==
    {<<Unbounded(Acc1), Unbounded(Acc1)>>, <<Unbounded(Acc1), Unbounded(Acc2)>>}
    \cup {<<Bounded(Acc1, m), Bounded(Acc1, m)>> : m \in 0..MaxBins}
    \cup {<<Bounded(Acc1, m), Unbounded(Acc1)>> : m \in 0..MaxBins}

NoResult == [op |-> "none"]
NoProbe == [op |-> "none"]
NoObservations == [i \in SketchIds |-> <<>>]

Init ==
    /\ sketches \in {[i \in SketchIds |-> c[i]] : c \in Constructions}
    /\ inserted = [i \in SketchIds |-> 0]
    /\ last = NoResult
    /\ panicked = FALSE
    /\ probe = NoProbe
    /\ observations = NoObservations

Add(i, v) ==
    /\ ~panicked
    /\ inserted[i] + 1 <= MaxCount
    /\ LET r == add(sketches[i], v)
       IN  /\ sketches' = [sketches EXCEPT ![i] = r.sketch]
           /\ panicked' = r.panic
    /\ inserted' = [inserted EXCEPT ![i] = @ + 1]
    /\ last' = NoResult
    /\ UNCHANGED <<probe, observations>>

AddWithCount(i, v, c) ==
    /\ ~panicked
    /\ inserted[i] + c <= MaxCount
    /\ LET r == add_with_count(sketches[i], v, c)
       IN  /\ sketches' = [sketches EXCEPT ![i] = r.sketch]
           /\ panicked' = r.panic
    /\ inserted' = [inserted EXCEPT ![i] = @ + c]
    /\ last' = NoResult
    /\ UNCHANGED <<probe, observations>>

Merge(i, j) ==
    /\ ~panicked
    /\ i # j
    /\ inserted[i] + inserted[j] <= MaxMerged
    /\ LET r == merge(sketches[i], sketches[j])
       IN  /\ sketches' = [sketches EXCEPT ![i] = r.sketch]
           /\ panicked' = r.panic
           /\ inserted' = IF r.res.ok
                          THEN [inserted EXCEPT ![i] = @ + inserted[j]]
                          ELSE inserted
           /\ last' = [op |-> "merge", self |-> i, res |-> r.res]
    /\ UNCHANGED <<probe, observations>>

Clear(i) ==
    /\ ~panicked
    /\ sketches' = [sketches EXCEPT ![i] = clear(sketches[i])]
    /\ inserted' = [inserted EXCEPT ![i] = 0]
    /\ last' = NoResult
    /\ UNCHANGED <<panicked, probe, observations>>

GetQuantileValue(i, q) ==
    /\ ~panicked
    /\ last' = [op |-> "get_quantile_value", self |-> i, quantile |-> q,
                res |-> get_quantile_value(sketches[i], q)]
    /\ UNCHANGED <<sketches, inserted, panicked, probe, observations>>

GetQuantileValues(i, qs) ==
    /\ ~panicked
    /\ last' = [op |-> "get_quantile_values", self |-> i, quantiles |-> qs,
                res |-> get_quantile_values(sketches[i], qs)]
    /\ UNCHANGED <<sketches, inserted, panicked, probe, observations>>

\* The calls that change a sketch.
Next ==
    \/ \E i \in SketchIds, v \in Values : Add(i, v)
    \/ \E i \in SketchIds, v \in Values, c \in 0..MaxAddCount : AddWithCount(i, v, c)
    \/ \E i \in SketchIds, j \in SketchIds : Merge(i, j)
    \/ \E i \in SketchIds : Clear(i)

Spec == Init /\ [][Next]_vars

\* The calls with the queries among them: the first sketch is built up,
\* merged into and queried, the second receives one value at most.
NextQuery ==
    \/ \E v \in Values : Add(1, v)
    \/ \E v \in Values, c \in 0..MaxAddCount : AddWithCount(1, v, c)
    \/ \E v \in Values : inserted[2] = 0 /\ Add(2, v)
    \/ Merge(1, 2)
    \/ Clear(1)
    \/ \E q \in Quantiles : GetQuantileValue(1, q)
    \/ \E qs \in QuantileLists : GetQuantileValues(1, qs)

SpecQuery == Init /\ [][NextQuery]_vars

---------------------------------------------------------------------------
(* The calls with the values given on record: the first sketch, unbounded  *)
(* or bounded, is built up, merged into and queried; the second receives   *)
(* one value at most.  Under ln(1 + a) = 1/2 the values exp(2/4) and       *)
(* exp(3/4) share a bucket.                                                 *)

ObservedValues ==
    {Exp(1, 4), Exp(2, 4), Exp(3, 4), Exp(4, 4), Neg(Exp(2, 4)), Neg(Exp(3, 4)), Zero}

\* A bag of values: the function from the values it holds to their numbers.
BagAdd(bag, v, c) ==
    IF c = 0 THEN bag
    ELSE [x \in DOMAIN bag \cup {v} |->
            (IF x \in DOMAIN bag THEN bag[x] ELSE 0) + (IF x = v THEN c ELSE 0)]

BagSum(a, b) ==
    [x \in DOMAIN a \cup DOMAIN b |->
        (IF x \in DOMAIN a THEN a[x] ELSE 0) + (IF x \in DOMAIN b THEN b[x] ELSE 0)]

ObservedConstructions ==
    {<<Unbounded(a), Unbounded(a)>> : a \in {Acc1, Acc2}}
    \cup {<<Bounded(Acc1, m), Unbounded(Acc1)>> : m \in 0..MaxBins}

InitObserved ==
    /\ sketches \in {[i \in SketchIds |-> c[i]] : c \in ObservedConstructions}
    /\ inserted = [i \in SketchIds |-> 0]
    /\ last = NoResult
    /\ panicked = FALSE
    /\ probe = NoProbe
    /\ observations = NoObservations

\* add_with_count, the call and its arguments kept in last.
AddObserved(i, v, c) ==
    /\ ~panicked
    /\ inserted[i] + c <= MaxCount
    /\ LET r == add_with_count(sketches[i], v, c)
       IN  /\ sketches' = [sketches EXCEPT ![i] = r.sketch]
           /\ panicked' = r.panic
    /\ inserted' = [inserted EXCEPT ![i] = @ + c]
    /\ observations' = [observations EXCEPT ![i] = BagAdd(@, v, c)]
    /\ last' = [op |-> "add_with_count", self |-> i, value |-> v, count |-> c]
    /\ UNCHANGED probe

\* merge, the receiver taking over the record of the merged sketch.
MergeObserved(i, j) ==
    /\ ~panicked
    /\ i # j
    /\ inserted[i] + inserted[j] <= MaxMerged
    /\ LET r == merge(sketches[i], sketches[j])
       IN  /\ sketches' = [sketches EXCEPT ![i] = r.sketch]
           /\ panicked' = r.panic
           /\ inserted' = IF r.res.ok
                          THEN [inserted EXCEPT ![i] = @ + inserted[j]]
                          ELSE inserted
           /\ observations' = IF r.res.ok
                              THEN [observations EXCEPT
                                      ![i] = BagSum(@, observations[j])]
                              ELSE observations
           /\ last' = [op |-> "merge", self |-> i, other |-> j, res |-> r.res]
    /\ UNCHANGED probe

NextObserved ==
    \/ \E v \in ObservedValues, c \in 0..MaxAddCount : AddObserved(1, v, c)
    \/ \E v \in ObservedValues : inserted[2] = 0 /\ AddObserved(2, v, 1)
    \/ MergeObserved(1, 2)
    \/ \E q \in Quantiles : GetQuantileValue(1, q)

SpecObserved == InitObserved /\ [][NextObserved]_vars

---------------------------------------------------------------------------
(* A sketch and its clone: the first sketch is built up and cloned into    *)
(* the second, and from then on the two are given the same calls.          *)

CloneConstructions ==
    {<<Unbounded(Acc1), Unbounded(Acc1)>>}
    \cup {<<Bounded(Acc1, m), Bounded(Acc1, m)>> : m \in 1..MaxBins}

InitClone ==
    /\ sketches \in {[i \in SketchIds |-> c[i]] : c \in CloneConstructions}
    /\ inserted = [i \in SketchIds |-> 0]
    /\ last = NoResult
    /\ panicked = FALSE
    /\ probe = NoProbe
    /\ observations = NoObservations

\* Whether the second sketch is the clone of the first, given the calls the
\* first was given since.
Cloned == last.op \in {"clone", "add_with_count_both", "merge_both"}

Clone(i, j) ==
    /\ ~panicked
    /\ i # j
    /\ sketches' = [sketches EXCEPT ![j] = clone(sketches[i])]
    /\ inserted' = [inserted EXCEPT ![j] = inserted[i]]
    /\ last' = [op |-> "clone", self |-> i]
    /\ UNCHANGED <<panicked, probe, observations>>

\* add_with_count(v, c) on the original and on the clone.
AddWithCountBoth(v, c) ==
    /\ ~panicked
    /\ Cloned
    /\ inserted[1] + c <= MaxCount
    /\ LET r == [i \in SketchIds |-> add_with_count(sketches[i], v, c)]
       IN  /\ sketches' = [i \in SketchIds |-> r[i].sketch]
           /\ panicked' = \E i \in SketchIds : r[i].panic
    /\ inserted' = [i \in SketchIds |-> inserted[i] + c]
    /\ last' = [op |-> "add_with_count_both"]
    /\ UNCHANGED <<probe, observations>>

\* merge(&other) on the original and on the clone, other an unbounded
\* sketch of the same accuracy that holds v.
MergeBoth(v) ==
    /\ ~panicked
    /\ Cloned
    /\ inserted[1] + 1 <= MaxCount
    /\ LET other == add(DDSketch_new(sketches[1].mapping.relative_accuracy).val,
                        v).sketch
           r == [i \in SketchIds |-> merge(sketches[i], other)]
       IN  /\ sketches' = [i \in SketchIds |-> r[i].sketch]
           /\ panicked' = \E i \in SketchIds : r[i].panic
    /\ inserted' = [i \in SketchIds |-> inserted[i] + 1]
    /\ last' = [op |-> "merge_both"]
    /\ UNCHANGED <<probe, observations>>

NextClone ==
    \/ \E v \in Values : ~Cloned /\ Add(1, v)
    \/ ~Cloned /\ Clone(1, 2)
    \/ \E v \in Values, c \in 0..MaxAddCount : AddWithCountBoth(v, c)
    \/ \E v \in Values : MergeBoth(v)

SpecClone == InitClone /\ [][NextClone]_vars

---------------------------------------------------------------------------
(* The mapping alone: key of a positive value, then value of that index.   *)

\* ln(1 + a) = 1e-8: a = 1.000000005e-8, multiplier = 1e8.
AccFine == Accuracy(1, 100000000)
MapAccuracies == {Acc1, Acc2, AccFine}

\* The positive values exp(n/2), n in -MapRange .. MapRange: with MapRange
\* = 50 from 1.4e-11 to 7.2e10.
MapRange == 50
MapValues == {Exp(n, 2) : n \in -MapRange..MapRange}

InitMapping ==
    /\ sketches = [i \in SketchIds |-> Unbounded(Acc1)]
    /\ inserted = [i \in SketchIds |-> 0]
    /\ last = NoResult
    /\ panicked = FALSE
    /\ probe = NoProbe
    /\ observations = NoObservations

MapKey(a, v) ==
    /\ LET mapping == LogarithmicMapping_new(a).val
       IN  probe' = [op |-> "key", mapping |-> mapping, v |-> v,
                     index |-> key(mapping, v)]
    /\ UNCHANGED <<sketches, inserted, last, panicked, observations>>

MapValue ==
    /\ probe.op = "key"
    /\ probe' = [op |-> "value", mapping |-> probe.mapping, v |-> probe.v,
                 index |-> probe.index,
                 decoded |-> value(probe.mapping, probe.index)]
    /\ UNCHANGED <<sketches, inserted, last, panicked, observations>>

NextMapping ==
    \/ \E a \in MapAccuracies, v \in MapValues : MapKey(a, v)
    \/ MapValue

SpecMapping == InitMapping /\ [][NextMapping]_vars

---------------------------------------------------------------------------
(* Properties.                                                             *)

RECURSIVE SumOver(_, _)
SumOver(bins, S) ==
    IF S = {} THEN 0
    ELSE LET x == CHOOSE y \in S : TRUE
         IN  bins[x] + SumOver(bins, S \ {x})

\* The sum of the counts of the buckets present.
BucketSum(s) == SumOver(Store_iter(s), DOMAIN Store_iter(s))

\* The number of buckets present.
NumBins(s) == Cardinality(DOMAIN Store_iter(s))

StoresOf(sk) == {sk.store, sk.negative_store}

\* C1: count() of a sketch, unbounded or bounded, equals the sum of the
\* counts passed to it by add (1 each) and add_with_count (0 for a count of
\* 0), whatever the signs of the values, after every call that returned.
C1_CountConservation ==
    ~panicked => \A i \in SketchIds : count(sketches[i]) = inserted[i]

\* A bounded sketch that received MaxCount observations, some positive, some
\* negative and some zero.
C1_Witness ==
    /\ ~panicked
    /\ \E i \in SketchIds :
        /\ IsCollapsing(sketches[i].store)
        /\ inserted[i] = MaxCount
        /\ sketches[i].zero_count > 0
        /\ Store_total_count(sketches[i].store) > 0
        /\ Store_total_count(sketches[i].negative_store) > 0

\* C2: a CollapsingStore created with max_num_bins >= 1 holds at most
\* max_num_bins buckets after every add and every merge.
C2_BinsBounded ==
    ~panicked =>
        \A i \in SketchIds : \A s \in StoresOf(sketches[i]) :
            (IsCollapsing(s) /\ s.max_num_bins >= 1) => NumBins(s) <= s.max_num_bins

\* A merge just brought more buckets than max_num_bins into a bounded
\* store, from a store that holds them still.
C2_Witness ==
    /\ last.op = "merge"
    /\ last.res.ok
    /\ \E j \in SketchIds \ {last.self} :
        LET s == sketches[last.self].store
        IN  /\ IsCollapsing(s)
            /\ s.max_num_bins >= 1
            /\ NumBins(sketches[j].store) > s.max_num_bins
            /\ NumBins(s) = s.max_num_bins

BuiltWithMaxBins(sk, m) ==
    /\ IsCollapsing(sk.store)
    /\ sk.store.max_num_bins = m
    /\ IsCollapsing(sk.negative_store)
    /\ sk.negative_store.max_num_bins = m

C4_TotalCountIsSum ==
    \A i \in SketchIds : \A s \in StoresOf(sketches[i]) :
        Store_total_count(s) = BucketSum(s)

\* A bounded store whose one bucket holds observations of two different
\* buckets: a collapse has fused them.
C4_Witness ==
    \E i \in SketchIds :
        LET sk == sketches[i]
        IN  /\ IsCollapsing(sk.store)
            /\ NumBins(sk.store) = 1
            /\ Store_total_count(sk.negative_store) = 0
            /\ sk.zero_count = 0
            /\ sk.min_value.some
            /\ key(sk.mapping, sk.min_value.val) # key(sk.mapping, sk.max_value.val)

\* The smaller and the larger of two optional values, an undefined one
\* ignored.
OptMin(a, b) ==
    IF ~a.some THEN b
    ELSE IF ~b.some THEN a
    ELSE IF RealLeq(b.val, a.val) THEN b ELSE a

OptMax(a, b) ==
    IF ~a.some THEN b
    ELSE IF ~b.some THEN a
    ELSE IF RealLeq(a.val, b.val) THEN b ELSE a

\* C5: a successful A.merge(&B) of sketches of equal accuracy leaves
\* A.count() = old A.count() + B.count(), A.min() the smaller and A.max()
\* the larger of the two sketches' previous min and max (an undefined one
\* ignored), and B unchanged.
C5_MergeAdditivity ==
    [][\A i \in SketchIds : \A j \in SketchIds \ {i} :
          (Merge(i, j) /\ last'.res.ok) =>
              /\ count(sketches'[i]) = count(sketches[i]) + count(sketches[j])
              /\ sketches'[i].min_value
                     = OptMin(sketches[i].min_value, sketches[j].min_value)
              /\ sketches'[i].max_value
                     = OptMax(sketches[i].max_value, sketches[j].max_value)
              /\ sketches'[j] = sketches[j]]_vars

\* A merge has succeeded into a sketch whose minimum came from the merged
\* sketch and whose maximum was its own.
C5_Witness ==
    /\ last.op = "merge"
    /\ last.res.ok
    /\ \E j \in SketchIds \ {last.self} :
        LET a == sketches[last.self]
            b == sketches[j]
        IN  /\ count(b) > 0
            /\ count(a) > count(b)
            /\ a.min_value = b.min_value
            /\ a.max_value # b.max_value

\* What a caller can observe of a sketch: its buckets, count, min, max and
\* the answer to every quantile.
Observed(x) ==
    [positive |-> Store_iter(x.store),
     negative |-> Store_iter(x.negative_store),
     zero_count |-> x.zero_count,
     count |-> count(x),
     min |-> x.min_value,
     max |-> x.max_value,
     answers |-> [q \in Quantiles |-> get_quantile_value(x, q)]]

\* x.merge(&y) returns Ok.
Merges(x, y) == merge(x, y).res.ok

Merged(x, y) == merge(x, y).sketch

\* A.merge(B) and B.merge(A) leave the same sketch to observe.
Commutes(a, b) ==
    (Merges(a, b) /\ Merges(b, a)) => Observed(Merged(a, b)) = Observed(Merged(b, a))

\* (A merge B) merge C and A merge (B merge C) leave the same sketch to
\* observe.
Associates(a, b, c) ==
    (/\ Merges(a, b) /\ Merges(Merged(a, b), c)
     /\ Merges(b, c) /\ Merges(a, Merged(b, c)))
        => Observed(Merged(Merged(a, b), c)) = Observed(Merged(a, Merged(b, c)))

\* The third sketches: built like x, holding one value.
Thirds(x) ==
    {r.sketch : r \in {t \in {add(clear(x), v) : v \in Values} : ~t.panic}}

SameStores(x, y) == clear(x).store = clear(y).store

IsUnbounded(x) == ~IsCollapsing(x.store) /\ ~IsCollapsing(x.negative_store)

\* C6 as stated: for compatible sketches A, B, C, with unbounded or bounded
\* stores, A.merge(B) and B.merge(A), and (A merge B) merge C and
\* A merge (B merge C), hold the same buckets, count, min, max and quantile
\* answers.
C6_AsStated ==
    ~panicked =>
        /\ Commutes(sketches[1], sketches[2])
        /\ \A c \in Thirds(sketches[1]) : Associates(sketches[1], sketches[2], c)

\* C6, amended: A.merge(B) and B.merge(A) hold the same buckets, count,
\* min, max and quantile answers when A and B have the same kind of store
\* (both unbounded, or both bounded by the same max_num_bins), and
\* (A merge B) merge C and A merge (B merge C) do when the three sketches
\* are unbounded.
C6_MergeOrder ==
    ~panicked =>
        /\ SameStores(sketches[1], sketches[2])
               => Commutes(sketches[1], sketches[2])
        /\ (IsUnbounded(sketches[1]) /\ IsUnbounded(sketches[2]))
               => \A c \in Thirds(sketches[1]) :
                      Associates(sketches[1], sketches[2], c)

\* Two unbounded sketches, mergeable both ways, that share one bucket and
\* differ in others, in min and in max.
C6_Witness ==
    LET a == sketches[1]
        b == sketches[2]
    IN  /\ ~panicked
        /\ Merges(a, b)
        /\ Merges(b, a)
        /\ IsUnbounded(a)
        /\ IsUnbounded(b)
        /\ NumBins(a.store) = 2
        /\ DOMAIN Store_iter(a.store) \cap DOMAIN Store_iter(b.store) # {}
        /\ Store_total_count(b.negative_store) > 0
        /\ a.min_value # b.min_value
        /\ a.max_value # b.max_value

\* q1 < q2 on quantiles.
QuantileLess(q1, q2) == q1.num * q2.den < q2.num * q1.den

\* C7: on a populated sketch, get_quantile_value(q1) <= get_quantile_value(q2)
\* for all 0 <= q1 < q2 <= 1, q2 = 1 included: two successive answers of
\* the same sketch are ordered as their quantiles are.
C7_QuantileMonotone ==
    [][(/\ last.op = "get_quantile_value"
        /\ last'.op = "get_quantile_value"
        /\ last'.self = last.self
        /\ last.res.ok
        /\ last'.res.ok
        /\ QuantileLess(last.quantile, last'.quantile))
           => RealLeq(last.res.val, last'.res.val)]_vars

\* C8: a failing operation leaves the sketches as they were: a merge that
\* returns IncompatibleSketches, which a merge of sketches built with
\* different accuracies does, and a get_quantile_value or
\* get_quantile_values that returns an error.
C8_FailureChangesNothing ==
    [][/\ (last'.op = "merge" /\ ~last'.res.ok /\ ~panicked')
              => sketches' = sketches
       /\ (last'.op \in {"get_quantile_value", "get_quantile_values"} /\ ~last'.res.ok)
              => sketches' = sketches
       /\ \A i \in SketchIds : \A j \in SketchIds \ {i} :
              (/\ Merge(i, j)
               /\ sketches[i].mapping.relative_accuracy
                      # sketches[j].mapping.relative_accuracy)
                  => last'.res = Err("IncompatibleSketches")]_vars

\* A merge of two populated sketches has just failed with
\* IncompatibleSketches.
C8_Witness ==
    /\ last.op = "merge"
    /\ last.res = Err("IncompatibleSketches")
    /\ \A i \in SketchIds : count(sketches[i]) > 0

LogGapScaled(d, v) ==
    LET dw == (d.num \div d.den) - (v.num \div v.den)
    IN  dw * d.den * v.den + (d.num % d.den) * v.den - (v.num % v.den) * d.den

\* |d - v| / v <= a for a positive v, where ln(1 + a) = x = xn/xd <= 1/2:
\* d is positive and ln(1 - a) <= ln(d) - ln(v) <= ln(1 + a).  The upper
\* bound is x, exactly.  ln(1 - a) lies between -3x and -x: a gap below -3x
\* breaks the bound, and a gap between -3x and -x is counted as within it,
\* so that a violation of this predicate is a violation of the bound.
WithinRelativeAccuracy(d, v, a) ==
    /\ d.sgn = 1
    /\ LET dw == (d.num \div d.den) - (v.num \div v.den)
           gap == LogGapScaled(d, v)
           x == (a.ln1p_num * d.den * v.den) \div a.ln1p_den
           x3 == (3 * a.ln1p_num * d.den * v.den) \div a.ln1p_den
       IN  /\ -3 < dw
           /\ dw < 2
           /\ gap <= x
           /\ gap >= -x3

\* C10: for every v > 0 and every mapping of accuracy a in (0, 1),
\* |value(key(v)) - v| / v <= a.
C10_AccuracyBound ==
    probe.op = "value" =>
        WithinRelativeAccuracy(probe.decoded, probe.v,
                               probe.mapping.relative_accuracy)

\* The number of values of a bag, and its r-th smallest value (0-indexed,
\* r below the number of values).
RECURSIVE BagSize(_)
BagSize(bag) ==
    IF DOMAIN bag = {} THEN 0
    ELSE LET x == CHOOSE y \in DOMAIN bag : TRUE
         IN  bag[x] + BagSize([y \in DOMAIN bag \ {x} |-> bag[y]])

RECURSIVE NthSmallest(_, _)
NthSmallest(bag, r) ==
    LET lo == CHOOSE x \in DOMAIN bag : \A y \in DOMAIN bag : RealLeq(x, y)
    IN  IF r < bag[lo] THEN lo
        ELSE NthSmallest([y \in DOMAIN bag \ {lo} |-> bag[y]], r - bag[lo])

\* The decoded value of the bucket a value falls in: of the negative store
\* negated, of the zero bucket 0, of the positive store.
BucketValueOf(mapping, v) ==
    IF v.sgn > 0 THEN value(mapping, key(mapping, v))
    ELSE IF v.sgn < 0 THEN Neg(value(mapping, key(mapping, Neg(v))))
    ELSE Zero

\* C11: on a populated unbounded sketch holding n observations, for every
\* q in [0, 1] with r = floor(q * n) < n, get_quantile_value(q) returns the
\* decoded value of the bucket that holds the r-th smallest (0-indexed)
\* observation, negated for an observation in the negative store.
C11_QuantileIsRankBucket ==
    (/\ last.op = "get_quantile_value"
     /\ IsUnbounded(sketches[last.self])
     /\ 0 <= last.quantile.num
     /\ last.quantile.num <= last.quantile.den) =>
        LET bag == observations[last.self]
            n == BagSize(bag)
            r == (last.quantile.num * n) \div last.quantile.den
        IN  (n > 0 /\ r < n) =>
                last.res = Ok(BucketValueOf(sketches[last.self].mapping,
                                            NthSmallest(bag, r)))

\* The median of three observations has just been answered on an unbounded
\* sketch that holds a positive observation and two negative ones that
\* share a bucket.
C11_Witness ==
    /\ last.op = "get_quantile_value"
    /\ last.quantile = Quantile(2, 4)
    /\ last.res.ok
    /\ IsUnbounded(sketches[last.self])
    /\ BagSize(observations[last.self]) = 3
    /\ \E v \in DOMAIN observations[last.self] : v.sgn > 0
    /\ \E v, w \in DOMAIN observations[last.self] :
          /\ v # w
          /\ v.sgn < 0
          /\ w.sgn < 0
          /\ key(sketches[last.self].mapping, Neg(v))
                 = key(sketches[last.self].mapping, Neg(w))

\* C12: on a populated sketch, for every quantile in [0, 1], the walk finds
\* a bucket whose cumulative count exceeds the rank: no answer of
\* get_quantile_value comes from the fallback to max_value.
C12_FallbackNeverTaken ==
    (last.op = "get_quantile_value" /\ last.res.ok) =>
        QuantileWalk(sketches[last.self], last.quantile).via # "fallback"

\* The pairs of buckets adjacent in sorted index order, the count of a
\* pair, the pair of minimum count that comes first in ascending index
\* order, and the bins with a pair fused into its lower index.
AdjacentPairs(bins) ==
    LET idx == SortedAsc(DOMAIN bins)
    IN  {<<idx[k], idx[k + 1]>> : k \in 1..(Len(idx) - 1)}

PairCount(bins, p) == bins[p[1]] + bins[p[2]]

FirstMinimalPair(bins) ==
    CHOOSE p \in AdjacentPairs(bins) :
        \A q \in AdjacentPairs(bins) :
            \/ PairCount(bins, p) < PairCount(bins, q)
            \/ PairCount(bins, p) = PairCount(bins, q) /\ p[1] <= q[1]

Fused(bins, p) ==
    [k \in DOMAIN bins \ {p[2]} |-> IF k = p[1] THEN PairCount(bins, p) ELSE bins[k]]

\* The collapse steps from bins down to max_num_bins buckets, each compared
\* with the fusion of the first minimal pair: whether every step that has a
\* pair before it is that fusion, and the bins the steps end with.  A step
\* on a single bucket (max_num_bins = 0) has no pair to fuse.
RECURSIVE StepsFuseFirstMinimalPair(_, _)
StepsFuseFirstMinimalPair(bins, max_num_bins) ==
    IF Cardinality(DOMAIN bins) <= max_num_bins \/ Cardinality(DOMAIN bins) < 2
    THEN [ok |-> TRUE, bins |-> bins]
    ELSE LET step == CollapseStep(bins, SortedAsc(DOMAIN bins))
         IN  IF \/ step.panic
                \/ step.bins # Fused(bins, FirstMinimalPair(bins))
                \/ step.sorted_indices # SortedAsc(DOMAIN step.bins)
             THEN [ok |-> FALSE, bins |-> bins]
             ELSE StepsFuseFirstMinimalPair(step.bins, max_num_bins)

\* A bounded store after a call, against the bins the call gave it before
\* the collapse.
CollapsedAsClaimed(before, after, panics) ==
    LET steps == StepsFuseFirstMinimalPair(before, after.max_num_bins)
    IN  /\ steps.ok
        /\ ~panics => Dense(after).bins = steps.bins

\* C13: each collapse step of a CollapsingStore that holds more than
\* max_num_bins buckets, and at least the two a pair takes, fuses exactly
\* one pair of buckets adjacent in sorted index order: the pair of minimum
\* summed count, the first such pair in ascending index order on ties; the
\* fused count is stored at the lower index, the higher index is removed
\* and every other bucket is unchanged.  The store an add_with_count or a
\* merge leaves is the result of these steps.
C13_CollapseStep ==
    [][/\ (/\ last'.op = "add_with_count"
           /\ last'.count > 0
           /\ last'.value.sgn # 0
           /\ IsCollapsing(sketches[last'.self].store)) =>
              LET i == last'.self
                  v == last'.value
                  m == sketches[i].mapping
              IN  IF v.sgn > 0
                  THEN CollapsedAsClaimed(
                           DenseStore_add(Dense(sketches[i].store),
                                          key(m, v), last'.count).bins,
                           sketches'[i].store, panicked')
                  ELSE CollapsedAsClaimed(
                           DenseStore_add(Dense(sketches[i].negative_store),
                                          key(m, Neg(v)), last'.count).bins,
                           sketches'[i].negative_store, panicked')
       /\ (/\ last'.op = "merge"
           /\ last'.res.ok
           /\ IsCollapsing(sketches[last'.self].store)) =>
              LET i == last'.self
                  j == last'.other
              IN  /\ CollapsedAsClaimed(
                         DenseStore_merge(Dense(sketches[i].store),
                                          Store_iter(sketches[j].store)).bins,
                         sketches'[i].store, FALSE)
                  /\ CollapsedAsClaimed(
                         DenseStore_merge(Dense(sketches[i].negative_store),
                                          Store_iter(sketches[j].negative_store)).bins,
                         sketches'[i].negative_store, FALSE)]_vars

\* A store bounded to two buckets was given three positive values of
\* three buckets, once each, the last by the call just made: of the two tied
\* pairs the lower was fused, its count at the lowest index.
C13_Witness ==
    /\ last.op = "add_with_count"
    /\ ~panicked
    /\ IsCollapsing(sketches[1].store)
    /\ sketches[1].store.max_num_bins = 2
    /\ observations[1] = [v \in {Exp(1, 4), Exp(2, 4), Exp(4, 4)} |-> 1]
    /\ Dense(sketches[1].store).bins
           = [k \in {key(sketches[1].mapping, Exp(1, 4)),
                     key(sketches[1].mapping, Exp(4, 4))} |->
                 IF k = key(sketches[1].mapping, Exp(1, 4)) THEN 2 ELSE 1]

\* C14: a clone is observationally equivalent to its original: after the
\* same calls of add, add_with_count and merge on both, the two hold the
\* same buckets and count and give the same quantile answers, and each store
\* of the clone of a sketch built by with_max_bins(a, m) holds at most m
\* buckets.
C14_CloneEquivalent ==
    (Cloned /\ ~panicked) =>
        /\ Observed(sketches[2]) = Observed(sketches[1])
        /\ IsCollapsing(sketches[1].store) =>
              \A s \in StoresOf(sketches[2]) :
                  NumBins(s) <= sketches[1].store.max_num_bins

\* C15: for every max_num_bins that with_max_bins accepts, 0 included,
\* every add and merge returns: collapse_if_needed reads
\* sorted_indices[merge_index + 1] only with two indices or more before it,
\* and no call panics.
C15_NoPanic == ~panicked

=============================================================================
